---- MODULE Spec2Model ----
(***************************************************************************)
(* Command relay of the Chrome DevTools MCP server (src/mcp-server.js):    *)
(* the command queue, sendCommandToExtension, the /poll-commands and       *)
(* /command-result endpoints, the cleanup interval and the telemetry       *)
(* buffers filled by /devtools-data.                                       *)
(*                                                                         *)
(* Node runs every handler and every timer callback to completion, so each *)
(* action below is one handler or one callback.  Time is the wall clock    *)
(* read by Date.now(); a timer fires when its delay has elapsed, possibly  *)
(* later (setTimeout/setInterval promise a minimum delay only).            *)
(***************************************************************************)
EXTENDS Integers, Sequences, FiniteSets, TLC

\* ---------------------------------------------------------------- bounds
MaxCommands == 2      \* sendCommandToExtension calls per behaviour
MaxAdvances == 2      \* clock advances per behaviour
MaxPushes   == 2      \* POST /devtools-data requests per behaviour
MaxFill     == 1      \* largest number of free slots of a buffer at start
MaxExecutions == 3    \* executeCommand runs of the extension that are under way
MaxBuf      == 2      \* records in the buffers a telemetry query is run on
MaxImages        == 2       \* images a selector matches
MaxPageTicks     == 3       \* steps of the page's clock
MaxAjaxCalls     == 2       \* waitForAjax calls of a page
MaxRequests      == 1       \* requests the page makes meanwhile
MaxRetryAttempts == 3       \* largest maxAttempts given to retryUntilSuccess

\* ------------------------------------------------------ program constants
timeout          == 30000   \* sendCommandToExtension: wait at most 30 s
POLL_SLEEP       == 100     \* sendCommandToExtension: sleep between checks
maxAge           == 60000   \* cleanupInterval: records older than this go
CLEANUP_PERIOD   == 60000   \* cleanupInterval: period of the sweep
NETWORK_CAP      == 5000
CONSOLE_CAP      == 5000
PERFORMANCE_CAP  == 500

\* ------------------------------------------------------------ input sets
Actions   == {"click_element"}
Params    == {"{selector:#go}"}
Payloads  == {"{clicked:true}"}
Undefined == "<undefined>"
Errors    == {"No tab", Undefined}
Tabs      == {1, 2}
PushTypes == {"network", "console", "performance", "tab_attached"}
\* the types the extension calls sendToMcpServer with
PeerPushTypes == {"network", "console", "performance", "tab_attached",
                  "tab_detached", "tab_removed", "external_extension_log"}
TimeSteps == {100, 29900, 60000}

Null == [null |-> TRUE]
NoResponse == [op |-> "none"]

VARIABLES
  now,              \* Date.now()
  advances,         \* clock advances taken so far
  commandQueue,     \* the Map, as its entries in insertion order
  commandIdCounter,
  issued,           \* history: the ids handed out, in order
  calls,            \* the sendCommandToExtension calls that are waiting
  nextSweep,        \* the time the cleanup interval is due next
  devToolsData,
  resp,             \* what the step just taken has sent back: an HTTP response or
                    \* the settlement of a sendCommandToExtension call, if any
  pushLog,          \* history: per buffer, what it was given since it was last cleared
  pushed,           \* history: number of /devtools-data requests received
  mcpServerConnected,  \* extension: the server answered the last /status check
  executions,       \* extension: the executeCommand runs that have not posted yet
  httpServerListening,    \* httpServer accepts connections
  cleanupIntervalActive,  \* cleanupInterval has not been cleared
  exitTimers,       \* the times the setTimeout(() => process.exit(0), 100) are set for
  exited,           \* process.exit has been called
  pageNow,          \* Date.now() in the page the content scripts run in
  imageWait,        \* observer.js: the waitForImages call of the page
  ajaxWait,         \* observer.js: the waitForAjax calls and what they patch
  retry             \* the retryUntilSuccess call of the page

vars == <<now, advances, commandQueue, commandIdCounter, issued, calls, nextSweep,
          devToolsData, resp, pushLog, pushed, mcpServerConnected, executions,
          httpServerListening, cleanupIntervalActive, exitTimers, exited,
          pageNow, imageWait, ajaxWait, retry>>

\* the state of the process (src/mcp-server.js, cleanup)
procVars == <<httpServerListening, cleanupIntervalActive, exitTimers, exited>>

\* the state of the page (content scripts)
pageVars == <<pageNow, imageWait, ajaxWait, retry>>

\* the functions a page starts with: XMLHttpRequest.prototype.open and
\* send, and window.fetch, each named by the waitForAjax call that made it,
\* 0 for the function that was there before the first call
Native == [open |-> 0, send |-> 0, fetch |-> 0]

\* no call of a content script has been made
NoWait == [state |-> "idle"]

PageIdle ==
  /\ pageNow = 0
  /\ imageWait = NoWait
  /\ ajaxWait = [patched |-> Native, calls |-> <<>>, requests |-> <<>>]
  /\ retry = NoWait

\* the state of the extension (src/extension/debug-helper.js)
peerVars == <<mcpServerConnected, executions>>

\* ------------------------------------------------------------ Map helpers
RECURSIVE MapIndex(_, _, _)
MapIndex(q, id, i) ==
  IF i > Len(q) THEN 0
  ELSE IF q[i].id = id THEN i
  ELSE MapIndex(q, id, i + 1)

MapHas(q, id) == MapIndex(q, id, 1) # 0

MapGet(q, id) == q[MapIndex(q, id, 1)]

\* Map.set: an existing key keeps its position, a new key goes last
MapSet(q, id, rec) ==
  IF MapHas(q, id)
    THEN [q EXCEPT ![MapIndex(q, id, 1)] = rec]
    ELSE Append(q, rec)

MapDelete(q, id) == SelectSeq(q, LAMBDA c : c.id # id)

\* ------------------------------------------------- sendCommandToExtension
NoOutcome        == [kind |-> "none",   message |-> "", value |-> Null]
Returned(v)      == [kind |-> "return", message |-> "", value |-> v]
Thrown(m)        == [kind |-> "throw",  message |-> m,  value |-> Null]
TypeErrorThrown  == [kind |-> "TypeError", message |-> "Cannot read properties of undefined (reading 'status')", value |-> Null]

Falsy(v) == v \in {"", Undefined}

\* mutant: the counter wraps around instead of growing
NextCommandId_Wrap(counter) == (counter % 1) + 1

\* const commandId = ++commandIdCounter
NextCommandId(counter) == counter + 1

\* the record sendCommandToExtension puts into the Map
NewCommand(id, action, params, t) ==
  [id |-> id, action |-> action, params |-> params, timestamp |-> t,
   status |-> "pending", result |-> Null]

\* cmd.result?.error || 'Command failed'
ErrorMessage(result) ==
  IF "error" \in DOMAIN result /\ ~Falsy(result.error)
    THEN result.error
    ELSE "Command failed"

\* mutant: the loop still runs when exactly `timeout` ms have elapsed
LoopRuns_Inclusive(call, t) == t - call.startTime <= timeout

\* mutant: the loop has no deadline
LoopRuns_Forever(call, t) == TRUE

\* while (Date.now() - startTime < timeout)
LoopRuns(call, t) == t - call.startTime < timeout

\* mutant: the record is left in the Map when the call times out
LoopIteration_KeepOnTimeout(q, call, t) ==
  IF LoopRuns(call, t)
    THEN IF ~MapHas(q, call.commandId)
           THEN [queue |-> q, call |-> call, outcome |-> TypeErrorThrown]
         ELSE LET cmd == MapGet(q, call.commandId) IN
           IF cmd.status = "completed"
             THEN [queue |-> MapDelete(q, call.commandId), call |-> call,
                   outcome |-> Returned(cmd.result)]
           ELSE IF cmd.status = "error"
             THEN [queue |-> MapDelete(q, call.commandId), call |-> call,
                   outcome |-> Thrown(ErrorMessage(cmd.result))]
           ELSE [queue |-> q, call |-> [call EXCEPT !.wakeAt = t + POLL_SLEEP],
                 outcome |-> NoOutcome]
    ELSE [queue |-> q, call |-> call, outcome |-> Thrown("Command timeout")]

\* mutant: the loop looks for 'completed' only and sleeps on an 'error'
LoopIteration_NoErrorBranch(q, call, t) ==
  IF LoopRuns(call, t)
    THEN IF ~MapHas(q, call.commandId)
           THEN [queue |-> q, call |-> call, outcome |-> TypeErrorThrown]
         ELSE LET cmd == MapGet(q, call.commandId) IN
           IF cmd.status = "completed"
             THEN [queue |-> MapDelete(q, call.commandId), call |-> call,
                   outcome |-> Returned(cmd.result)]
           ELSE [queue |-> q, call |-> [call EXCEPT !.wakeAt = t + POLL_SLEEP],
                 outcome |-> NoOutcome]
    ELSE [queue |-> MapDelete(q, call.commandId), call |-> call,
          outcome |-> Thrown("Command timeout")]

\* mutant: the record is left in the Map when the call fails with the
\* reported error
LoopIteration_KeepOnError(q, call, t) ==
  IF LoopRuns(call, t)
    THEN IF ~MapHas(q, call.commandId)
           THEN [queue |-> q, call |-> call, outcome |-> TypeErrorThrown]
         ELSE LET cmd == MapGet(q, call.commandId) IN
           IF cmd.status = "completed"
             THEN [queue |-> MapDelete(q, call.commandId), call |-> call,
                   outcome |-> Returned(cmd.result)]
           ELSE IF cmd.status = "error"
             THEN [queue |-> q, call |-> call,
                   outcome |-> Thrown(ErrorMessage(cmd.result))]
           ELSE [queue |-> q, call |-> [call EXCEPT !.wakeAt = t + POLL_SLEEP],
                 outcome |-> NoOutcome]
    ELSE [queue |-> MapDelete(q, call.commandId), call |-> call,
          outcome |-> Thrown("Command timeout")]

\* mutant: after the loop the record is read again before it is deleted
LoopIteration_AssumesPresent(q, call, t) ==
  IF LoopRuns(call, t)
    THEN IF ~MapHas(q, call.commandId)
           THEN [queue |-> q, call |-> call, outcome |-> TypeErrorThrown]
         ELSE LET cmd == MapGet(q, call.commandId) IN
           IF cmd.status = "completed"
             THEN [queue |-> MapDelete(q, call.commandId), call |-> call,
                   outcome |-> Returned(cmd.result)]
           ELSE IF cmd.status = "error"
             THEN [queue |-> MapDelete(q, call.commandId), call |-> call,
                   outcome |-> Thrown(ErrorMessage(cmd.result))]
           ELSE [queue |-> q, call |-> [call EXCEPT !.wakeAt = t + POLL_SLEEP],
                 outcome |-> NoOutcome]
    ELSE IF ~MapHas(q, call.commandId)
      THEN [queue |-> q, call |-> call, outcome |-> TypeErrorThrown]
      ELSE [queue |-> MapDelete(q, call.commandId), call |-> call,
            outcome |-> Thrown("Command timeout")]

\* One evaluation of the while condition and, when it holds, one body of
\* the loop up to the await; otherwise the two statements after the loop.
\* The outcome is NoOutcome when the call goes to sleep again.
LoopIteration(q, call, t) ==
  IF LoopRuns(call, t)
    THEN IF ~MapHas(q, call.commandId)
           THEN [queue |-> q, call |-> call, outcome |-> TypeErrorThrown]
         ELSE LET cmd == MapGet(q, call.commandId) IN
           IF cmd.status = "completed"
             THEN [queue |-> MapDelete(q, call.commandId), call |-> call,
                   outcome |-> Returned(cmd.result)]
           ELSE IF cmd.status = "error"
             THEN [queue |-> MapDelete(q, call.commandId), call |-> call,
                   outcome |-> Thrown(ErrorMessage(cmd.result))]
           ELSE [queue |-> q, call |-> [call EXCEPT !.wakeAt = t + POLL_SLEEP],
                 outcome |-> NoOutcome]
    ELSE [queue |-> MapDelete(q, call.commandId), call |-> call,
          outcome |-> Thrown("Command timeout")]

\* history of a waiting call: how many reports have found its record ("none",
\* "one" or "many"), the body of the report when there has been exactly one,
\* and whether a report was received before the timeout of the call had
\* elapsed
NothingGot == [reports |-> "none", sole |-> Null, inTime |-> FALSE]

\* what the caller of a call that has just ended observes, with the history
\* of the call and whether the pass of the loop that ended it ran after the
\* time its timer was set for
Settlement(call, outcome, t) ==
  [op |-> "settle", commandId |-> call.commandId, outcome |-> outcome,
   got |-> call.got, late |-> t > call.wakeAt]

RemoveAt(seq, i) == [k \in 1..(Len(seq) - 1) |-> IF k < i THEN seq[k] ELSE seq[k + 1]]

\* A tool handler calls sendCommandToExtension(action, params): the record
\* is created and the first pass of the loop runs in the same turn.
SendCommandToExtension(action, params) ==
  /\ commandIdCounter < MaxCommands
  /\ LET commandId == NextCommandId(commandIdCounter)
         q1   == MapSet(commandQueue, commandId, NewCommand(commandId, action, params, now))
         call == [commandId |-> commandId, startTime |-> now, wakeAt |-> now,
                  got |-> NothingGot]
         it   == LoopIteration(q1, call, now)
     IN /\ commandIdCounter' = commandId
        /\ issued' = Append(issued, commandId)
        /\ commandQueue' = it.queue
        /\ IF it.outcome = NoOutcome
             THEN calls' = Append(calls, it.call) /\ resp' = NoResponse
             ELSE calls' = calls /\ resp' = Settlement(it.call, it.outcome, now)
  /\ UNCHANGED <<now, advances, nextSweep, devToolsData, pushLog, pushed>>

\* The setTimeout(resolve, 100) of a waiting call fires and the loop resumes.
WaitTick(i) ==
  /\ now >= calls[i].wakeAt
  /\ LET it == LoopIteration(commandQueue, calls[i], now)
     IN /\ commandQueue' = it.queue
        /\ IF it.outcome = NoOutcome
             THEN calls' = [calls EXCEPT ![i] = it.call] /\ resp' = NoResponse
             ELSE calls' = RemoveAt(calls, i) /\ resp' = Settlement(calls[i], it.outcome, now)
  /\ UNCHANGED <<now, advances, commandIdCounter, issued, nextSweep, devToolsData,
                 pushLog, pushed>>

\* ------------------------------------------------------ GET /poll-commands
\* mutant: the status filter is missing
RECURSIVE PendingFrom_All(_, _)
PendingFrom_All(q, i) ==
  IF i > Len(q) THEN <<>>
  ELSE <<[id |-> q[i].id, action |-> q[i].action, params |-> q[i].params]>>
         \o PendingFrom_All(q, i + 1)

RECURSIVE PendingFrom(_, _)
PendingFrom(q, i) ==
  IF i > Len(q) THEN <<>>
  ELSE IF q[i].status = "pending"
    THEN <<[id |-> q[i].id, action |-> q[i].action, params |-> q[i].params]>>
           \o PendingFrom(q, i + 1)
    ELSE PendingFrom(q, i + 1)

PollCommandsBody(q) == [commands |-> PendingFrom(q, 1)]

\* mutant: the poll marks the commands it hands out as taken
PollCommands_Claiming ==
  /\ resp' = [op |-> "poll", status |-> 200, body |-> PollCommandsBody(commandQueue)]
  /\ commandQueue' = [j \in 1..Len(commandQueue) |->
                        IF commandQueue[j].status = "pending"
                          THEN [commandQueue[j] EXCEPT !.status = "taken"]
                          ELSE commandQueue[j]]
  /\ UNCHANGED <<now, advances, commandIdCounter, issued, calls, nextSweep,
                 devToolsData, pushLog, pushed>>

\* mutant: polls are answered only while no call is waiting
PollCommands_Blocked ==
  /\ calls = <<>>
  /\ resp' = [op |-> "poll", status |-> 200, body |-> PollCommandsBody(commandQueue)]
  /\ UNCHANGED <<now, advances, commandQueue, commandIdCounter, issued, calls, nextSweep,
                 devToolsData, pushLog, pushed>>

PollCommands ==
  /\ resp' = [op |-> "poll", status |-> 200, body |-> PollCommandsBody(commandQueue)]
  /\ UNCHANGED <<now, advances, commandQueue, commandIdCounter, issued, calls, nextSweep,
                 devToolsData, pushLog, pushed>>

\* ---------------------------------------------------- POST /command-result
\* mutant: a result for an unknown id creates a record
CommandResultStore_Upsert(q, body) ==
  MapSet(q, body.commandId,
         [id |-> body.commandId, action |-> "", params |-> "", timestamp |-> 0,
          status |-> IF body.success THEN "completed" ELSE "error",
          result |-> IF body.success THEN body.result ELSE [error |-> body.error]])

\* mutant: a result is written into every record of the Map
CommandResultStore_Broadcast(q, body) ==
  IF MapHas(q, body.commandId)
    THEN [j \in 1..Len(q) |->
            [q[j] EXCEPT
               !.status = IF body.success THEN "completed" ELSE "error",
               !.result = IF body.success THEN body.result
                                          ELSE [error |-> body.error]]]
    ELSE q

\* the Map after the handler has run on the request body
CommandResultStore(q, body) ==
  IF MapHas(q, body.commandId)
    THEN LET command == MapGet(q, body.commandId) IN
         MapSet(q, body.commandId,
                [command EXCEPT
                   !.status = IF body.success THEN "completed" ELSE "error",
                   !.result = IF body.success THEN body.result
                                              ELSE [error |-> body.error]])
    ELSE q

CommandResultBody(q, body) == [success |-> TRUE]

ReportBodies ==
  {[commandId |-> id, success |-> TRUE, result |-> [payload |-> p], error |-> Undefined] :
      id \in 1..(MaxCommands + 1), p \in Payloads}
  \cup
  {[commandId |-> id, success |-> FALSE, result |-> Null, error |-> e] :
      id \in 1..(MaxCommands + 1), e \in Errors}

\* history: a report that finds its record is noted in the waiting call of
\* that id
NoteReport(cs, body, t) ==
  [i \in 1..Len(cs) |->
     IF cs[i].commandId = body.commandId
       THEN [cs[i] EXCEPT
               !.got = [reports |-> IF @.reports = "none" THEN "one" ELSE "many",
                        sole    |-> IF @.reports = "none" THEN body ELSE Null,
                        inTime  |-> @.inTime \/ t - cs[i].startTime < timeout]]
       ELSE cs[i]]

CommandResult(body) ==
  /\ commandQueue' = CommandResultStore(commandQueue, body)
  /\ resp' = [op |-> "report", status |-> 200,
              body |-> CommandResultBody(commandQueue, body)]
  /\ calls' = IF MapHas(commandQueue, body.commandId)
                THEN NoteReport(calls, body, now)
                ELSE calls
  /\ UNCHANGED <<now, advances, commandIdCounter, issued, nextSweep,
                 devToolsData, pushLog, pushed>>

\* --------------------------------------------------------- cleanupInterval
RECURSIVE SweepFrom(_, _, _)
SweepFrom(q, i, t) ==
  IF i > Len(q) THEN q
  ELSE IF t - q[i].timestamp > maxAge
    THEN SweepFrom(MapDelete(q, q[i].id), i, t)
    ELSE SweepFrom(q, i + 1, t)

\* mutant: the sweep spares the records that are still pending
Sweep_SparePending(q, t) ==
  SelectSeq(q, LAMBDA c : c.status = "pending" \/ t - c.timestamp <= maxAge)

\* mutant: the sweep removes every record that is older than one sleep of
\* the wait loop
Sweep_Eager(q, t) ==
  SelectSeq(q, LAMBDA c : t - c.timestamp < POLL_SLEEP)

Sweep(q, t) == SweepFrom(q, 1, t)

CleanupSweep ==
  /\ now >= nextSweep
  /\ commandQueue' = Sweep(commandQueue, now)
  /\ nextSweep' = now + CLEANUP_PERIOD
  /\ resp' = NoResponse
  /\ UNCHANGED <<now, advances, commandIdCounter, issued, calls, devToolsData,
                 pushLog, pushed>>

\* ------------------------------------------------------------------- clock
Advance(d) ==
  /\ advances < MaxAdvances
  /\ now' = now + d
  /\ advances' = advances + 1
  /\ resp' = NoResponse
  /\ UNCHANGED <<commandQueue, commandIdCounter, issued, calls, nextSweep,
                 devToolsData, pushLog, pushed>>

\* The clock of a behaviour that is followed to its end: it goes on for as
\* long as a waiting call has not reached its timeout.
TimePasses(d) ==
  /\ \E i \in 1..Len(calls) : now - calls[i].startTime < timeout
  /\ now' = now + d
  /\ resp' = NoResponse
  /\ UNCHANGED <<advances, commandQueue, commandIdCounter, issued, calls, nextSweep,
                 devToolsData, pushLog, pushed>>

\* ------------------------------------------------------ POST /devtools-data
\* mutant: slice(0, n), which keeps the oldest n elements
SliceLast_Oldest(s, n) ==
  IF Len(s) <= n THEN s ELSE SubSeq(s, 1, n)

\* Array.prototype.slice(-n) for n > 0: the last n elements
SliceLast(s, n) ==
  IF Len(s) <= n THEN s ELSE SubSeq(s, Len(s) - n + 1, Len(s))

\* mutant: the length check is missing
PushCapped_NoEvict(buf, data, cap) == Append(buf, data)

\* buf.push(data); if (buf.length > cap) buf = buf.slice(-cap)
PushCapped(buf, data, cap) ==
  LET b == Append(buf, data)
  IN IF Len(b) > cap THEN SliceLast(b, cap) ELSE b

\* new Date().toISOString(): one string per millisecond
ToISOString(t) == [iso |-> t]

\* mutant: a type the handler does not know ends up in the console buffer
DevtoolsDataStore_Fallthrough(d, type, data, t) ==
  LET d1 ==
        IF type = "network"
          THEN [d EXCEPT !.networkRequests = PushCapped(@, data, NETWORK_CAP)]
        ELSE IF type = "performance"
          THEN [d EXCEPT !.performanceMetrics = PushCapped(@, data, PERFORMANCE_CAP)]
        ELSE [d EXCEPT !.consoleLogs = PushCapped(@, data, CONSOLE_CAP)]
  IN [d1 EXCEPT !.lastUpdate = ToISOString(t)]

\* devToolsData after the handler has run on {type, data}
DevtoolsDataStore(d, type, data, t) ==
  LET d1 ==
        IF type = "network"
          THEN [d EXCEPT !.networkRequests = PushCapped(@, data, NETWORK_CAP)]
        ELSE IF type = "console"
          THEN [d EXCEPT !.consoleLogs = PushCapped(@, data, CONSOLE_CAP)]
        ELSE IF type = "performance"
          THEN [d EXCEPT !.performanceMetrics = PushCapped(@, data, PERFORMANCE_CAP)]
        ELSE d
  IN [d1 EXCEPT !.lastUpdate = ToISOString(t)]

\* history: what each buffer has been given since it was last cleared
LogPush(log, type, data) ==
  IF type = "network" THEN [log EXCEPT !.networkRequests = Append(@, data)]
  ELSE IF type = "console" THEN [log EXCEPT !.consoleLogs = Append(@, data)]
  ELSE IF type = "performance" THEN [log EXCEPT !.performanceMetrics = Append(@, data)]
  ELSE log

DevtoolsData(type, tab) ==
  /\ pushed < MaxPushes
  /\ LET data == [tabId |-> tab, seq |-> pushed + 1]
     IN /\ devToolsData' = DevtoolsDataStore(devToolsData, type, data, now)
        /\ pushLog' = LogPush(pushLog, type, data)
  /\ pushed' = pushed + 1
  /\ resp' = [op |-> "push", status |-> 200, body |-> [success |-> TRUE]]
  /\ UNCHANGED <<now, advances, commandQueue, commandIdCounter, issued, calls,
                 nextSweep>>

\* ----------------------------------------------------- clear_devtools_data
NoTab == 0     \* args.tab_id absent

\* mutant: with a tab id only the network buffer is filtered
ClearStore_NetworkOnly(d, tabId) ==
  IF tabId # NoTab
    THEN [networkRequests    |-> SelectSeq(d.networkRequests, LAMBDA r : r.tabId # tabId),
          consoleLogs        |-> d.consoleLogs,
          performanceMetrics |-> d.performanceMetrics,
          lastUpdate         |-> Null]
    ELSE [networkRequests |-> <<>>, consoleLogs |-> <<>>, performanceMetrics |-> <<>>,
          lastUpdate |-> Null]

ClearStore(d, tabId) ==
  IF tabId # NoTab
    THEN [networkRequests    |-> SelectSeq(d.networkRequests, LAMBDA r : r.tabId # tabId),
          consoleLogs        |-> SelectSeq(d.consoleLogs, LAMBDA l : l.tabId # tabId),
          performanceMetrics |-> SelectSeq(d.performanceMetrics, LAMBDA m : m.tabId # tabId),
          lastUpdate         |-> Null]
    ELSE [networkRequests |-> <<>>, consoleLogs |-> <<>>, performanceMetrics |-> <<>>,
          lastUpdate |-> Null]

Buffers(d) == [networkRequests    |-> d.networkRequests,
               consoleLogs        |-> d.consoleLogs,
               performanceMetrics |-> d.performanceMetrics]

ClearDevtoolsData(tabId) ==
  /\ devToolsData' = ClearStore(devToolsData, tabId)
  /\ pushLog' = Buffers(devToolsData')
  /\ resp' = NoResponse
  /\ UNCHANGED <<now, advances, commandQueue, commandIdCounter, issued, calls,
                 nextSweep, pushed>>

\* ----------------------------------------------------------- specification
EmptyData == [networkRequests |-> <<>>, consoleLogs |-> <<>>,
              performanceMetrics |-> <<>>, lastUpdate |-> Null]

\* The relay is followed from the first command on, a few telemetry records
\* having arrived before it.
Earlier(n) == [i \in 1..n |-> [tabId |-> 1 + (i % 2), seq |-> i - n]]

SomeData == [networkRequests |-> Earlier(2), consoleLogs |-> Earlier(1),
             performanceMetrics |-> Earlier(1), lastUpdate |-> ToISOString(0)]

Init ==
  /\ now = 0
  /\ advances = 0
  /\ commandQueue = <<>>
  /\ commandIdCounter = 0
  /\ issued = <<>>
  /\ calls = <<>>
  /\ nextSweep = CLEANUP_PERIOD
  /\ devToolsData = SomeData
  /\ resp = NoResponse
  /\ pushLog = Buffers(devToolsData)
  /\ pushed = 0
  /\ mcpServerConnected = FALSE
  /\ executions = <<>>
  /\ httpServerListening = TRUE
  /\ cleanupIntervalActive = TRUE
  /\ exitTimers = {}
  /\ exited = FALSE
  /\ PageIdle

\* The relay: commands, polls, reports, the wait loop, the sweep, the clock.
Next ==
  \/ \E a \in Actions, p \in Params : SendCommandToExtension(a, p) /\ UNCHANGED <<peerVars, procVars, pageVars>>
  \/ \E i \in 1..Len(calls) : WaitTick(i) /\ UNCHANGED <<peerVars, procVars, pageVars>>
  \/ PollCommands /\ UNCHANGED <<peerVars, procVars, pageVars>>
  \/ \E body \in ReportBodies : CommandResult(body) /\ UNCHANGED <<peerVars, procVars, pageVars>>
  \/ CleanupSweep /\ UNCHANGED <<peerVars, procVars, pageVars>>
  \/ \E d \in TimeSteps : Advance(d) /\ UNCHANGED <<peerVars, procVars, pageVars>>

Spec == Init /\ [][Next]_vars

\* ------------------------------------------------------------- GET /status
StatusBody(d, q) ==
  [networkRequests    |-> Len(d.networkRequests),
   consoleLogs        |-> Len(d.consoleLogs),
   performanceMetrics |-> Len(d.performanceMetrics),
   lastUpdate         |-> d.lastUpdate,
   pendingCommands    |-> Len(PendingFrom(q, 1))]

Status ==
  /\ resp' = [op |-> "status", status |-> 200, body |-> StatusBody(devToolsData, commandQueue)]
  /\ UNCHANGED <<now, advances, commandQueue, commandIdCounter, issued, calls, nextSweep,
                 devToolsData, pushLog, pushed>>

\* ------------------------------------- the extension (debug-helper.js)
\* checkMcpServerConnection, the server being up: fetch /status, and
\* mcpServerConnected = response.ok
CheckMcpServerConnection ==
  /\ Status
  /\ mcpServerConnected' = (resp'.status = 200)
  /\ UNCHANGED <<executions, procVars, pageVars>>

\* mutant: a command that is being executed is not started again
StartExecutions_Once(running, commands) ==
  running \o SelectSeq(commands,
                       LAMBDA c : \A k \in 1..Len(running) : running[k].id # c.id)

\* for (const command of commands) executeCommand(command): the runs are
\* not awaited, each goes on by itself
StartExecutions(running, commands) == running \o commands

\* pollMcpCommands, every 500 ms: nothing when the server is believed down;
\* otherwise fetch /poll-commands and start an executeCommand run for every
\* command of the response
PollMcpCommands ==
  /\ mcpServerConnected
  /\ Len(executions) + Len(PendingFrom(commandQueue, 1)) <= MaxExecutions
  /\ PollCommands
  /\ executions' = StartExecutions(executions, resp'.body.commands)
  /\ UNCHANGED <<mcpServerConnected, procVars, pageVars>>

\* what handleMessage may answer: a payload, or {success: false, error}
HandleResults ==
  {[payload |-> p] : p \in Payloads}
    \cup {[success |-> FALSE, error |-> e] : e \in Errors \ {Undefined}}

\* mutant: the id of the body is not the id of the command that was run
ExecuteCommandBody_FirstId(command, result) ==
  [commandId |-> 1,
   success   |-> ~("success" \in DOMAIN result /\ result.success = FALSE),
   result    |-> result,
   error     |-> IF "error" \in DOMAIN result THEN result.error ELSE Undefined]

\* the body executeCommand posts for the answer of handleMessage
ExecuteCommandBody(command, result) ==
  [commandId |-> command.id,
   success   |-> ~("success" \in DOMAIN result /\ result.success = FALSE),
   result    |-> result,
   error     |-> IF "error" \in DOMAIN result THEN result.error ELSE Undefined]

\* An executeCommand run gets the answer of handleMessage and posts it to
\* /command-result.
ExecuteCommand(k, result) ==
  /\ CommandResult(ExecuteCommandBody(executions[k], result))
  /\ executions' = RemoveAt(executions, k)
  /\ UNCHANGED <<mcpServerConnected, procVars, pageVars>>

\* The relay with the extension as its only HTTP client.
NextPeer ==
  \/ \E a \in Actions, p \in Params : SendCommandToExtension(a, p) /\ UNCHANGED <<peerVars, procVars, pageVars>>
  \/ \E i \in 1..Len(calls) : WaitTick(i) /\ UNCHANGED <<peerVars, procVars, pageVars>>
  \/ CleanupSweep /\ UNCHANGED <<peerVars, procVars, pageVars>>
  \/ \E d \in TimeSteps : Advance(d) /\ UNCHANGED <<peerVars, procVars, pageVars>>
  \/ CheckMcpServerConnection
  \/ PollMcpCommands
  \/ \E k \in 1..Len(executions), result \in HandleResults : ExecuteCommand(k, result)

SpecPeer == Init /\ [][NextPeer]_vars

\* ------------------------------------------------ calls followed to their end
LiveSteps == {15000}

NextLive ==
  \/ \E a \in Actions, p \in Params : SendCommandToExtension(a, p) /\ UNCHANGED <<peerVars, procVars, pageVars>>
  \/ \E i \in 1..Len(calls) : WaitTick(i) /\ UNCHANGED <<peerVars, procVars, pageVars>>
  \/ PollCommands /\ UNCHANGED <<peerVars, procVars, pageVars>>
  \/ \E body \in ReportBodies : CommandResult(body) /\ UNCHANGED <<peerVars, procVars, pageVars>>
  \/ CleanupSweep /\ UNCHANGED <<peerVars, procVars, pageVars>>
  \/ \E d \in LiveSteps : TimePasses(d) /\ UNCHANGED <<peerVars, procVars, pageVars>>

\* Time passes, and a timer that is due fires: the event loop of Node runs
\* the callback of every expired setTimeout.
Fairness ==
  /\ WF_vars(\E d \in LiveSteps : TimePasses(d) /\ UNCHANGED <<peerVars, procVars, pageVars>>)
  /\ \A i \in 1..MaxCommands :
       WF_vars(i <= Len(calls) /\ WaitTick(i) /\ UNCHANGED <<peerVars, procVars, pageVars>>)

SpecLive == Init /\ [][NextLive]_vars /\ Fairness

\* ----------------------------------------------------------------- cleanup
EXIT_DELAY == 100

\* what makes the process run cleanup: the three signals, and an exception
\* that nothing has caught
Causes == {"SIGINT", "SIGTERM", "SIGHUP", "uncaughtException"}

\* mutant: cleanup leaves the interval timer running
Cleanup_KeepInterval(cause) ==
  /\ ~exited
  /\ httpServerListening' = FALSE
  /\ exitTimers' = exitTimers \cup {now + EXIT_DELAY}
  /\ resp' = [op |-> "cleanup", cause |-> cause]
  /\ UNCHANGED <<now, advances, commandQueue, commandIdCounter, issued, calls, nextSweep,
                 devToolsData, pushLog, pushed, peerVars, pageVars, cleanupIntervalActive, exited>>

\* cleanup: httpServer.close(), clearInterval(cleanupInterval), and
\* setTimeout(() => process.exit(0), 100)
Cleanup(cause) ==
  /\ ~exited
  /\ httpServerListening' = FALSE
  /\ cleanupIntervalActive' = FALSE
  /\ exitTimers' = exitTimers \cup {now + EXIT_DELAY}
  /\ resp' = [op |-> "cleanup", cause |-> cause]
  /\ UNCHANGED <<now, advances, commandQueue, commandIdCounter, issued, calls, nextSweep,
                 devToolsData, pushLog, pushed, peerVars, pageVars, exited>>

\* one of the exit timers fires: process.exit(0)
Exit ==
  /\ ~exited
  /\ \E t \in exitTimers : now >= t
  /\ exited' = TRUE
  /\ resp' = [op |-> "exit", code |-> 0]
  /\ UNCHANGED <<now, advances, commandQueue, commandIdCounter, issued, calls, nextSweep,
                 devToolsData, pushLog, pushed, peerVars, pageVars, httpServerListening,
                 cleanupIntervalActive, exitTimers>>

\* The relay with its end: nothing runs in a process that has exited, the
\* sweep runs only while its interval is set, and a request is served as
\* long as the process lives (httpServer.close() leaves the connections
\* that are open).
NextShutdown ==
  \/ /\ ~exited
     /\ \E a \in Actions, p \in Params : SendCommandToExtension(a, p)
     /\ UNCHANGED <<peerVars, procVars, pageVars>>
  \/ /\ ~exited
     /\ \E i \in 1..Len(calls) : WaitTick(i)
     /\ UNCHANGED <<peerVars, procVars, pageVars>>
  \/ /\ ~exited
     /\ PollCommands
     /\ UNCHANGED <<peerVars, procVars, pageVars>>
  \/ /\ ~exited
     /\ \E body \in ReportBodies : CommandResult(body)
     /\ UNCHANGED <<peerVars, procVars, pageVars>>
  \/ /\ ~exited
     /\ cleanupIntervalActive
     /\ CleanupSweep
     /\ UNCHANGED <<peerVars, procVars, pageVars>>
  \/ /\ ~exited
     /\ \E d \in TimeSteps : Advance(d)
     /\ UNCHANGED <<peerVars, procVars, pageVars>>
  \/ \E cause \in Causes : Cleanup(cause)
  \/ Exit

SpecShutdown == Init /\ [][NextShutdown]_vars

\* ------------------------------------------- calls that come with a timeout
\* wait_for_element and the other waiting tools take a `timeout` argument
\* from their caller; the tool handler passes it on inside params.
TimeoutMsValues == {1000, 30000}

TimedActions == {"wait_for_element"}

TimedParams == {[selector |-> "#go", timeout |-> T] : T \in TimeoutMsValues}

DeadlineSteps == {1000, 29000, 60000}

\* Calls with a caller-supplied timeout that get no report.
NextDeadline ==
  \/ \E a \in TimedActions, p \in TimedParams :
       SendCommandToExtension(a, p) /\ UNCHANGED <<peerVars, procVars, pageVars>>
  \/ \E i \in 1..Len(calls) : WaitTick(i) /\ UNCHANGED <<peerVars, procVars, pageVars>>
  \/ PollCommands /\ UNCHANGED <<peerVars, procVars, pageVars>>
  \/ CleanupSweep /\ UNCHANGED <<peerVars, procVars, pageVars>>
  \/ \E d \in DeadlineSteps : Advance(d) /\ UNCHANGED <<peerVars, procVars, pageVars>>

SpecDeadline == Init /\ [][NextDeadline]_vars

\* ------------------------------------------------------- telemetry queries
\* strings whose characters matter are sequences of characters
ToLowerCase(str) ==
  [i \in DOMAIN str |->
     IF str[i] = "A" THEN "a" ELSE IF str[i] = "I" THEN "i" ELSE str[i]]

\* String.prototype.includes
Includes(str, sub) ==
  \E i \in 0..(Len(str) - Len(sub)) : SubSeq(str, i + 1, i + Len(sub)) = sub

\* Array.prototype.slice(start)
Slice(seq, start) ==
  LET from == IF start < 0
                THEN (IF Len(seq) + start < 0 THEN 0 ELSE Len(seq) + start)
                ELSE (IF start > Len(seq) THEN Len(seq) ELSE start)
  IN SubSeq(seq, from + 1, Len(seq))

\* requests.slice(-limit)
SliceLimit(seq, limit) == Slice(seq, 0 - limit)

\* args.limit || dflt
LimitOr(args, dflt) ==
  IF "limit" \in DOMAIN args /\ args.limit # 0 THEN args.limit ELSE dflt

\* if (tabId) requests = requests.filter(req => req.tabId === tabId)
FilterTab(seq, args) ==
  IF args.tab_id # NoTab
    THEN SelectSeq(seq, LAMBDA r : r.tabId = args.tab_id)
    ELSE seq

\* if (urlFilter) requests = requests.filter(req =>
\*   req.url?.toLowerCase().includes(urlFilter.toLowerCase()))
FilterUrl(seq, args) ==
  IF "url_filter" \in DOMAIN args /\ args.url_filter # <<>>
    THEN SelectSeq(seq, LAMBDA r :
           Includes(ToLowerCase(r.url), ToLowerCase(args.url_filter)))
    ELSE seq

\* if (levelFilter) logs = logs.filter(log => log.level === levelFilter)
FilterLevel(seq, args) ==
  IF "level_filter" \in DOMAIN args /\ args.level_filter # ""
    THEN SelectSeq(seq, LAMBDA r : r.level = args.level_filter)
    ELSE seq

\* The bodies of the three answers; the list is called requests, logs or
\* metrics in the source and its length filtered or returned, here items
\* and filtered for all three.
GetNetworkRequestsBody(d, args) ==
  LET requests == SliceLimit(FilterUrl(FilterTab(d.networkRequests, args), args),
                             LimitOr(args, 50))
  IN [total |-> Len(d.networkRequests), filtered |-> Len(requests),
      lastUpdate |-> d.lastUpdate, items |-> requests]

GetConsoleLogsBody(d, args) ==
  LET logs == SliceLimit(FilterLevel(FilterTab(d.consoleLogs, args), args),
                         LimitOr(args, 50))
  IN [total |-> Len(d.consoleLogs), filtered |-> Len(logs),
      lastUpdate |-> d.lastUpdate, items |-> logs]

GetPerformanceMetricsBody(d, args) ==
  LET metrics == SliceLimit(FilterTab(d.performanceMetrics, args), LimitOr(args, 20))
  IN [total |-> Len(d.performanceMetrics), filtered |-> Len(metrics),
      lastUpdate |-> d.lastUpdate, items |-> metrics]

\* the three query tools read devToolsData and write nothing
Query(tool, args, body) ==
  /\ resp' = [op |-> tool, args |-> args, body |-> body]
  /\ UNCHANGED <<now, advances, commandQueue, commandIdCounter, issued, calls, nextSweep,
                 devToolsData, pushLog, pushed>>

GetNetworkRequests(args) ==
  Query("get_network_requests", args, GetNetworkRequestsBody(devToolsData, args))

GetConsoleLogs(args) ==
  Query("get_console_logs", args, GetConsoleLogsBody(devToolsData, args))

GetPerformanceMetrics(args) ==
  Query("get_performance_metrics", args, GetPerformanceMetricsBody(devToolsData, args))

\* the arguments a caller may give
Limits == 0..(MaxBuf + 1)

UrlFilters == {<<"a", "p", "i">>, <<"A", "P", "I">>, <<"i">>}

Levels == {"log", "error"}

WithLimit(base) == base \cup {[l \in DOMAIN a \cup {"limit"} |->
                                  IF l = "limit" THEN n ELSE a[l]] : a \in base, n \in Limits}

NetworkArgs ==
  WithLimit({[tab_id |-> t] : t \in Tabs \cup {NoTab}}
              \cup {[tab_id |-> t, url_filter |-> u] : t \in Tabs \cup {NoTab}, u \in UrlFilters})

ConsoleArgs ==
  WithLimit({[tab_id |-> t] : t \in Tabs \cup {NoTab}}
              \cup {[tab_id |-> t, level_filter |-> v] : t \in Tabs \cup {NoTab}, v \in Levels})

PerformanceArgs == WithLimit({[tab_id |-> t] : t \in Tabs \cup {NoTab}})

\* the records the buffers may hold
Urls == {<<"/", "a", "p", "i">>, <<"/", "A", "p", "I">>, <<"/", "i", "m", "g">>}

QueryRecords == {[tabId |-> t, url |-> u, level |-> v] : t \in Tabs, u \in Urls, v \in Levels}

RECURSIVE SeqsUpTo(_, _)
SeqsUpTo(S, n) ==
  IF n = 0 THEN {<<>>}
  ELSE LET shorter == SeqsUpTo(S, n - 1)
       IN shorter \cup {Append(q, x) : q \in {r \in shorter : Len(r) = n - 1}, x \in S}

\* Queries on buffers that earlier traffic has filled in any way.
InitQuery ==
  /\ now = 0
  /\ advances = 0
  /\ commandQueue = <<>>
  /\ commandIdCounter = 0
  /\ issued = <<>>
  /\ calls = <<>>
  /\ nextSweep = CLEANUP_PERIOD
  /\ \E recs \in SeqsUpTo(QueryRecords, MaxBuf) :
       devToolsData = [networkRequests |-> recs, consoleLogs |-> recs,
                       performanceMetrics |-> recs, lastUpdate |-> ToISOString(0)]
  /\ resp = NoResponse
  /\ pushLog = Buffers(devToolsData)
  /\ pushed = 0
  /\ mcpServerConnected = FALSE
  /\ executions = <<>>
  /\ httpServerListening = TRUE
  /\ cleanupIntervalActive = TRUE
  /\ exitTimers = {}
  /\ exited = FALSE
  /\ PageIdle

NextQuery ==
  \/ \E args \in NetworkArgs : GetNetworkRequests(args) /\ UNCHANGED <<peerVars, procVars, pageVars>>
  \/ \E args \in ConsoleArgs : GetConsoleLogs(args) /\ UNCHANGED <<peerVars, procVars, pageVars>>
  \/ \E args \in PerformanceArgs : GetPerformanceMetrics(args) /\ UNCHANGED <<peerVars, procVars, pageVars>>

SpecQuery == InitQuery /\ [][NextQuery]_vars

\* The telemetry buffers alone, started after earlier traffic has filled
\* them to within a few records of their capacity.
FilledData(free) ==
  [networkRequests    |-> Earlier(NETWORK_CAP - free),
   consoleLogs        |-> Earlier(CONSOLE_CAP - free),
   performanceMetrics |-> Earlier(PERFORMANCE_CAP - free),
   lastUpdate         |-> ToISOString(0)]

InitTelemetry ==
  /\ now = 0
  /\ advances = 0
  /\ commandQueue = <<>>
  /\ commandIdCounter = 0
  /\ issued = <<>>
  /\ calls = <<>>
  /\ nextSweep = CLEANUP_PERIOD
  /\ \E free \in 0..MaxFill : devToolsData = FilledData(free)
  /\ resp = NoResponse
  /\ pushLog = Buffers(devToolsData)
  /\ pushed = 0
  /\ mcpServerConnected = FALSE
  /\ executions = <<>>
  /\ httpServerListening = TRUE
  /\ cleanupIntervalActive = TRUE
  /\ exitTimers = {}
  /\ exited = FALSE
  /\ PageIdle

NextTelemetry ==
  \/ \E type \in PushTypes, tab \in Tabs : DevtoolsData(type, tab) /\ UNCHANGED <<peerVars, procVars, pageVars>>
  \/ \E tabId \in Tabs \cup {NoTab} : ClearDevtoolsData(tabId) /\ UNCHANGED <<peerVars, procVars, pageVars>>

SpecTelemetry == InitTelemetry /\ [][NextTelemetry]_vars

\* ------------------------------------ the extension and a server that ends
\* what a fetch of the extension meets: the server answers for as long as
\* the process lives, and the connection is refused once httpServer.close()
\* has been called (between the two a connection that was open is still
\* served and a new one is refused)
Served  == ~exited
Refused == ~httpServerListening

\* the fetch that did not get through
FetchFailed(op) == [op |-> op, status |-> 0, body |-> "TypeError: Failed to fetch"]

\* checkMcpServerConnection, the fetch throwing: mcpServerConnected = false
CheckMcpServerConnectionFails ==
  /\ Refused
  /\ mcpServerConnected' = FALSE
  /\ resp' = FetchFailed("status")
  /\ UNCHANGED <<now, advances, commandQueue, commandIdCounter, issued, calls, nextSweep,
                 devToolsData, pushLog, pushed, executions, procVars, pageVars>>

\* pollMcpCommands, the fetch throwing: the error is logged and the flag
\* stays as it is
PollMcpCommandsFails ==
  /\ mcpServerConnected
  /\ Refused
  /\ resp' = FetchFailed("poll")
  /\ UNCHANGED <<now, advances, commandQueue, commandIdCounter, issued, calls, nextSweep,
                 devToolsData, pushLog, pushed, peerVars, procVars, pageVars>>

\* mutant: sendToMcpServer does not look at the flag
SendToMcpServer_Unguarded(type, tab) ==
  \/ /\ Served
     /\ DevtoolsData(type, tab)
     /\ UNCHANGED <<peerVars, procVars, pageVars>>
  \/ /\ Refused
     /\ pushed < MaxPushes
     /\ pushed' = pushed + 1
     /\ mcpServerConnected' = FALSE
     /\ resp' = FetchFailed("push")
     /\ UNCHANGED <<now, advances, commandQueue, commandIdCounter, issued, calls, nextSweep,
                    devToolsData, pushLog, executions, procVars, pageVars>>

\* sendToMcpServer(type, data) for a record the debugger has just produced:
\* nothing when the server is believed down (the record is not kept);
\* otherwise POST /devtools-data, and mcpServerConnected = false when the
\* fetch throws
SendToMcpServer(type, tab) ==
  \/ /\ ~mcpServerConnected
     /\ pushed < MaxPushes
     /\ pushed' = pushed + 1
     /\ resp' = [op |-> "drop", seq |-> pushed + 1]
     /\ UNCHANGED <<now, advances, commandQueue, commandIdCounter, issued, calls, nextSweep,
                    devToolsData, pushLog, peerVars, procVars, pageVars>>
  \/ /\ mcpServerConnected
     /\ Served
     /\ DevtoolsData(type, tab)
     /\ UNCHANGED <<peerVars, procVars, pageVars>>
  \/ /\ mcpServerConnected
     /\ Refused
     /\ pushed < MaxPushes
     /\ pushed' = pushed + 1
     /\ mcpServerConnected' = FALSE
     /\ resp' = FetchFailed("push")
     /\ UNCHANGED <<now, advances, commandQueue, commandIdCounter, issued, calls, nextSweep,
                    devToolsData, pushLog, executions, procVars, pageVars>>

\* The extension beside a server that may be told to end: checks, polls
\* and pushes, before and after cleanup and exit; no command is under way.
NextLink ==
  \/ Advance(EXIT_DELAY) /\ UNCHANGED <<peerVars, procVars, pageVars>>
  \/ \E cause \in Causes : Cleanup(cause)
  \/ Exit
  \/ Served /\ CheckMcpServerConnection
  \/ CheckMcpServerConnectionFails
  \/ Served /\ PollMcpCommands
  \/ PollMcpCommandsFails
  \/ \E type \in PeerPushTypes, tab \in Tabs : SendToMcpServer(type, tab)

SpecLink == Init /\ [][NextLink]_vars

\* --------------------------------------------- telemetry beside the relay
\* Pushes and clears of the buffers while commands are under way.
NextData ==
  \/ \E a \in Actions, p \in Params : SendCommandToExtension(a, p) /\ UNCHANGED <<peerVars, procVars, pageVars>>
  \/ \E body \in ReportBodies : CommandResult(body) /\ UNCHANGED <<peerVars, procVars, pageVars>>
  \/ \E type \in PeerPushTypes, tab \in Tabs : DevtoolsData(type, tab) /\ UNCHANGED <<peerVars, procVars, pageVars>>
  \/ \E tabId \in Tabs \cup {NoTab} : ClearDevtoolsData(tabId) /\ UNCHANGED <<peerVars, procVars, pageVars>>

SpecData == Init /\ [][NextData]_vars

\* -------------------------------------- observer.js: waitForImages
relayVars == <<now, advances, commandQueue, commandIdCounter, issued, calls, nextSweep,
               devToolsData, resp, pushLog, pushed>>

PageSteps == {500, 1000}

\* the page's clock goes on
PageTick(d) ==
  /\ pageNow < MaxPageTicks * 500
  /\ pageNow' = pageNow + d
  /\ UNCHANGED <<relayVars, peerVars, procVars, imageWait, ajaxWait, retry>>

\* an image the selector matches, as the call finds it: loaded
\* (complete, naturalHeight # 0), still loading (its load or error event is
\* to come), or broken (complete with naturalHeight 0: its error event has
\* been dispatched before the call)
ImageStates == {"complete", "loading", "broken"}

ImageLists == SeqsUpTo(ImageStates, MaxImages)

ImageTimeouts == {1000}

\* a promise is settled by the first resolve or reject only
Settle(w, state, value) ==
  IF w.state = "pending" THEN [w EXCEPT !.state = state, !.value = value] ELSE w

\* checkComplete()
CheckComplete(w, t) ==
  IF w.loadedCount = w.totalImages
    THEN Settle(w, "resolved", [count |-> w.totalImages, waitedMs |-> t - w.startTime])
  ELSE IF t - w.startTime > w.timeout
    THEN Settle(w, "rejected", [loaded |-> w.loadedCount, total |-> w.totalImages])
  ELSE w

\* images.forEach: loadedCount++ for every image that is complete with a
\* height; the others get their two listeners
CountComplete(images) == Len(SelectSeq(images, LAMBDA img : img = "complete"))

\* waitForImages(selector, timeout) up to the return of the executor
WaitForImages(images, timeoutMs) ==
  /\ imageWait.state = "idle"
  /\ imageWait' =
       IF Len(images) = 0
         THEN [state |-> "resolved", value |-> [count |-> 0, waitedMs |-> 0],
               images |-> images, loadedCount |-> 0, totalImages |-> 0,
               startTime |-> pageNow, timeout |-> timeoutMs]
         ELSE CheckComplete([state |-> "pending", value |-> Null,
                             images |-> images, loadedCount |-> CountComplete(images),
                             totalImages |-> Len(images),
                             startTime |-> pageNow, timeout |-> timeoutMs],
                            pageNow)
  /\ UNCHANGED <<relayVars, peerVars, procVars, pageNow, ajaxWait, retry>>

\* the load or the error event of an image that was loading: the listener
\* counts it and calls checkComplete
ImageEvent(k, event) ==
  /\ imageWait.state # "idle"
  /\ k \in 1..Len(imageWait.images)
  /\ imageWait.images[k] = "loading"
  /\ imageWait' = CheckComplete([imageWait EXCEPT !.images[k] = event,
                                                  !.loadedCount = @ + 1],
                                pageNow)
  /\ UNCHANGED <<relayVars, peerVars, procVars, pageNow, ajaxWait, retry>>

NextImages ==
  \/ \E images \in ImageLists, timeoutMs \in ImageTimeouts : WaitForImages(images, timeoutMs)
  \/ \E k \in 1..MaxImages, event \in {"loaded", "failed"} : ImageEvent(k, event)
  \/ \E d \in PageSteps : PageTick(d)

SpecImages == Init /\ [][NextImages]_vars

\* ---------------------------------------- observer.js: waitForAjax
AJAX_SLEEP == 100

AjaxOptions == {[timeout |-> 1000, idleTime |-> 500]}

\* the calls whose wrappers a request goes through when it enters at the
\* function f: the wrapper of call i counts and hands on to the function
\* call i found installed
RECURSIVE Chain(_, _, _)
Chain(cs, f, via) ==
  IF f = 0 THEN {} ELSE {f} \cup Chain(cs, cs[f].original[via], via)

\* pendingRequests += d and lastRequestTime = Date.now() in the calls of ids
Count(cs, ids, d, t) ==
  [i \in 1..Len(cs) |->
     IF i \in ids
       THEN [cs[i] EXCEPT !.pendingRequests = @ + d, !.lastRequestTime = t]
       ELSE cs[i]]

\* checkIdle() of call i: restore and resolve when idle, restore and reject
\* when the timeout has passed, else setTimeout(checkIdle, 100)
CheckIdle(w, i, t) ==
  LET c == w.calls[i] IN
  IF c.pendingRequests = 0 /\ t - c.lastRequestTime > c.idleTime
    THEN [w EXCEPT !.patched = c.original,
                   !.calls[i].state = "resolved", !.calls[i].waitedMs = t - c.startTime]
  ELSE IF t - c.startTime > c.timeout
    THEN [w EXCEPT !.patched = c.original,
                   !.calls[i].state = "rejected", !.calls[i].waitedMs = t - c.startTime]
  ELSE [w EXCEPT !.calls[i].wakeAt = t + AJAX_SLEEP]

\* waitForAjax(options): the three functions found are kept, the three
\* wrappers installed, and checkIdle runs for the first time
WaitForAjax(options) ==
  /\ Len(ajaxWait.calls) < MaxAjaxCalls
  /\ LET i == Len(ajaxWait.calls) + 1
         c == [state |-> "pending", original |-> ajaxWait.patched,
               startTime |-> pageNow, timeout |-> options.timeout,
               idleTime |-> options.idleTime, pendingRequests |-> 0,
               lastRequestTime |-> pageNow, wakeAt |-> pageNow, waitedMs |-> 0]
         w == [ajaxWait EXCEPT !.patched = [open |-> i, send |-> i, fetch |-> i],
                               !.calls = Append(@, c)]
     IN ajaxWait' = CheckIdle(w, i, pageNow)
  /\ UNCHANGED <<relayVars, peerVars, procVars, pageNow, imageWait, retry>>

\* the setTimeout(checkIdle, 100) of a call fires
AjaxTick(i) ==
  /\ ajaxWait.calls[i].state = "pending"
  /\ pageNow >= ajaxWait.calls[i].wakeAt
  /\ ajaxWait' = CheckIdle(ajaxWait, i, pageNow)
  /\ UNCHANGED <<relayVars, peerVars, procVars, pageNow, imageWait, retry>>

\* the page calls xhr.send(...) or fetch(...): every wrapper on the way
\* counts the request
RequestStarts(via) ==
  /\ Len(ajaxWait.requests) < MaxRequests
  /\ LET ids == Chain(ajaxWait.calls, ajaxWait.patched[via], via)
     IN ajaxWait' = [ajaxWait EXCEPT !.calls = Count(@, ids, 1, pageNow),
                                     !.requests = Append(@, ids)]
  /\ UNCHANGED <<relayVars, peerVars, procVars, pageNow, imageWait, retry>>

\* loadend, or the finally of the fetch: every wrapper that counted the
\* request counts it down
RequestEnds ==
  /\ ajaxWait.requests # <<>>
  /\ ajaxWait' = [ajaxWait EXCEPT !.calls = Count(@, ajaxWait.requests[1], -1, pageNow),
                                  !.requests = Tail(@)]
  /\ UNCHANGED <<relayVars, peerVars, procVars, pageNow, imageWait, retry>>

NextAjax ==
  \/ \E options \in AjaxOptions : WaitForAjax(options)
  \/ \E i \in 1..Len(ajaxWait.calls) : AjaxTick(i)
  \/ \E via \in {"send", "fetch"} : RequestStarts(via)
  \/ RequestEnds
  \/ \E d \in PageSteps : PageTick(d)

SpecAjax == Init /\ [][NextAjax]_vars

\* ------------------------------------------- retryUntilSuccess
RetryDelays == {500}

\* what the action's promise may settle with
ActionResults == {[ok |-> TRUE, value |-> "done"],
                  [ok |-> FALSE, message |-> "not found"],
                  [ok |-> FALSE, message |-> "not visible"]}

\* new Error(`Action failed after ${maxAttempts} attempts. Last error:
\* ${lastError.message}`); with lastError undefined the template throws the
\* TypeError of reading 'message' instead
ActionFailed(maxAttempts, lastError) ==
  IF lastError = Undefined
    THEN [kind |-> "TypeError", attempts |-> maxAttempts, lastError |-> Undefined]
    ELSE [kind |-> "Action failed", attempts |-> maxAttempts, lastError |-> lastError]

\* the head of the for loop with attempt = n: the action is invoked when
\* n <= maxAttempts, else the loop is left and the throw is reached
LoopHead(r, n) ==
  IF n <= r.maxAttempts
    THEN [r EXCEPT !.state = "acting", !.attempt = n, !.invoked = @ + 1]
    ELSE [r EXCEPT !.state = "thrown", !.attempt = n,
                   !.outcome = ActionFailed(r.maxAttempts, r.lastError)]

\* retryUntilSuccess(action, maxAttempts, delayBetweenAttempts) up to its
\* first await
RetryUntilSuccess(maxAttempts, delay) ==
  /\ retry.state = "idle"
  /\ retry' = LoopHead([state |-> "idle", maxAttempts |-> maxAttempts, delay |-> delay,
                        attempt |-> 0, invoked |-> 0, slept |-> 0, lastError |-> Undefined,
                        wakeAt |-> 0, outcome |-> Null],
                       1)
  /\ UNCHANGED <<relayVars, peerVars, procVars, pageNow, imageWait, ajaxWait>>

\* the promise of action() settles: return on success; on failure keep the
\* error, and sleep if this was not the last attempt
ActionSettles(result) ==
  /\ retry.state = "acting"
  /\ retry' =
       IF result.ok
         THEN [retry EXCEPT !.state = "returned",
                            !.outcome = [success |-> TRUE, attempt |-> retry.attempt,
                                         result |-> result.value]]
       ELSE IF retry.attempt < retry.maxAttempts
         THEN [retry EXCEPT !.state = "sleeping", !.lastError = result.message,
                            !.slept = @ + 1, !.wakeAt = pageNow + retry.delay]
       ELSE LoopHead([retry EXCEPT !.lastError = result.message], retry.attempt + 1)
  /\ UNCHANGED <<relayVars, peerVars, procVars, pageNow, imageWait, ajaxWait>>

\* the _sleep(delayBetweenAttempts) is over: attempt++ and the loop goes on
SleepEnds ==
  /\ retry.state = "sleeping"
  /\ pageNow >= retry.wakeAt
  /\ retry' = LoopHead(retry, retry.attempt + 1)
  /\ UNCHANGED <<relayVars, peerVars, procVars, pageNow, imageWait, ajaxWait>>

NextRetry ==
  \/ \E maxAttempts \in 0..MaxRetryAttempts, delay \in RetryDelays :
       RetryUntilSuccess(maxAttempts, delay)
  \/ \E result \in ActionResults : ActionSettles(result)
  \/ SleepEnds
  \/ \E d \in PageSteps : PageTick(d)

SpecRetry == Init /\ [][NextRetry]_vars

\* ================================================================= claims
Settled == resp.op = "settle"

\* C1: a call for which a success report was received before its timeout
\* elapsed returns exactly the reported payload, and its id is not in the
\* store when it returns.  (Stated for the calls that got that one report
\* only and whose last wake-up was on time, so that neither a second report
\* nor a late timer is to blame.)
C1_SuccessReturned ==
  (/\ Settled
   /\ ~resp.late
   /\ resp.got.reports = "one"
   /\ resp.got.inTime
   /\ resp.got.sole.success)
    => /\ resp.outcome = Returned(resp.got.sole.result)
       /\ ~MapHas(commandQueue, resp.commandId)

\* C2: a call for which no report was received before its timeout elapsed
\* ends with Error('Command timeout'), and its id is not in the store when
\* it ends.
C2_TimeoutWithoutReport ==
  (Settled /\ ~resp.got.inTime)
    => /\ resp.outcome = Thrown("Command timeout")
       /\ ~MapHas(commandQueue, resp.commandId)

\* a call has timed out although a report for it came in, too late
C2_Witness ==
  /\ Settled
  /\ resp.outcome = Thrown("Command timeout")
  /\ resp.got.reports # "none"
  /\ ~resp.got.inTime

\* C3: a call whose record was pending when a failure report with an error
\* description was received for it ends with an Error carrying exactly that
\* description, its record deleted.  (Stated for the calls that got that one
\* report only and whose last wake-up was on time.)
C3_FailureRaised ==
  (/\ Settled
   /\ ~resp.late
   /\ resp.got.reports = "one"
   /\ resp.got.inTime
   /\ ~resp.got.sole.success
   /\ ~Falsy(resp.got.sole.error))
    => /\ resp.outcome = Thrown(resp.got.sole.error)
       /\ ~MapHas(commandQueue, resp.commandId)

\* C4: a /command-result request whose id is not in the store is answered
\* 200 {success: true} and changes neither the store, nor the id counter,
\* nor any waiting call.
UnknownReportStep ==
  \E body \in ReportBodies :
    ~MapHas(commandQueue, body.commandId) /\ CommandResult(body)

C4_UnknownReportIgnored ==
  [][UnknownReportStep =>
       /\ resp'.status = 200
       /\ resp'.body = [success |-> TRUE]
       /\ commandQueue' = commandQueue
       /\ commandIdCounter' = commandIdCounter
       /\ calls' = calls]_vars

\* a report came in after the only call had ended and its record was gone
C4_Witness ==
  /\ resp.op = "report"
  /\ commandIdCounter = 1
  /\ calls = <<>>
  /\ commandQueue = <<>>

\* C5: the body of a /poll-commands response lists each pending record of
\* the store once, as {id, action, params}, and nothing else.
C5_PollReturnsPending ==
  resp.op = "poll" =>
    LET cs == resp.body.commands IN
      /\ \A k \in 1..Len(cs) :
           /\ DOMAIN cs[k] = {"id", "action", "params"}
           /\ \E j \in 1..Len(commandQueue) :
                /\ commandQueue[j].status = "pending"
                /\ commandQueue[j].id = cs[k].id
                /\ commandQueue[j].action = cs[k].action
                /\ commandQueue[j].params = cs[k].params
      /\ \A j \in 1..Len(commandQueue) :
           commandQueue[j].status = "pending" =>
             Cardinality({k \in 1..Len(cs) : cs[k].id = commandQueue[j].id}) = 1

\* a poll answered one command while the store also held a reported one
C5_Witness ==
  /\ resp.op = "poll"
  /\ Len(resp.body.commands) = 1
  /\ Len(commandQueue) = 2
  /\ \E j \in 1..Len(commandQueue) : commandQueue[j].status # "pending"

\* C6: a record that is completed or error keeps its status and its result
\* for as long as it is in the store.
C6_StatusMonotonic ==
  [][\A j \in 1..Len(commandQueue) : \A k \in 1..Len(commandQueue') :
       (commandQueue[j].id = commandQueue'[k].id /\ commandQueue[j].status # "pending")
         => /\ commandQueue'[k].status = commandQueue[j].status
            /\ commandQueue'[k].result = commandQueue[j].result]_vars

\* C7: every call gets an id greater than the id of every earlier call.
C7_IdsIncrease ==
  \A i \in 1..Len(issued) : \A j \in 1..Len(issued) :
    i < j => issued[i] < issued[j]

\* a second call was made after the first had ended and its record was gone
C7_Witness ==
  /\ Len(issued) = 2
  /\ Len(calls) = 1
  /\ calls[1].commandId = issued[2]
  /\ MapHas(commandQueue, issued[2])
  /\ ~MapHas(commandQueue, issued[1])

\* C8: no buffer is longer than its capacity.
C8_BuffersCapped ==
  /\ Len(devToolsData.networkRequests) <= NETWORK_CAP
  /\ Len(devToolsData.consoleLogs) <= CONSOLE_CAP
  /\ Len(devToolsData.performanceMetrics) <= PERFORMANCE_CAP

\* a full buffer has been pushed to
C8_Witness ==
  /\ resp.op = "push"
  /\ Len(pushLog.consoleLogs) > CONSOLE_CAP
  /\ Len(devToolsData.consoleLogs) = CONSOLE_CAP

\* C9: each buffer holds the last min(n, capacity) of the n records it has
\* been given since it was last cleared, in the order they arrived.
LastOf(log, cap) ==
  LET n == Len(log)
      m == IF n < cap THEN n ELSE cap
  IN [i \in 1..m |-> log[n - m + i]]

C9_FifoEviction ==
  /\ devToolsData.networkRequests = LastOf(pushLog.networkRequests, NETWORK_CAP)
  /\ devToolsData.consoleLogs = LastOf(pushLog.consoleLogs, CONSOLE_CAP)
  /\ devToolsData.performanceMetrics = LastOf(pushLog.performanceMetrics, PERFORMANCE_CAP)

\* a buffer has been given capacity + 1 records
C9_Witness ==
  /\ Len(pushLog.performanceMetrics) = PERFORMANCE_CAP + 1
  /\ Len(devToolsData.performanceMetrics) = PERFORMANCE_CAP
  /\ devToolsData.performanceMetrics[PERFORMANCE_CAP].seq = pushed

\* C10: a sweep keeps exactly the records that are at most maxAge old, as
\* they were and in their order, whatever their status, and changes neither
\* the id counter nor the telemetry buffers.
SweepStep == nextSweep' # nextSweep

C10_SweepRemovesOld ==
  [][SweepStep =>
       /\ commandQueue' = SelectSeq(commandQueue, LAMBDA c : now - c.timestamp <= maxAge)
       /\ commandIdCounter' = commandIdCounter
       /\ devToolsData' = devToolsData]_vars

\* a sweep has removed a reported record and kept a younger one
C10_Witness ==
  /\ nextSweep > CLEANUP_PERIOD
  /\ commandQueue # <<>>
  /\ devToolsData # EmptyData
  /\ \E i \in 1..Len(calls) :
       /\ ~MapHas(commandQueue, calls[i].commandId)
       /\ calls[i].got.reports # "none"


\* C11: a call creates one record, when it is made, and deletes one, its own,
\* when it ends, whatever the outcome: the step that makes the call appends
\* one pending record under the new id; a pass of the loop that does not end
\* the call leaves the Map as it is; the pass that ends the call removes the
\* record of the call and nothing else; and no pass takes a new id.
C11_OneCreateOneDelete ==
  [][/\ (\E a \in Actions, p \in Params : SendCommandToExtension(a, p)) =>
          /\ Len(commandQueue') = Len(commandQueue) + 1
          /\ SubSeq(commandQueue', 1, Len(commandQueue)) = commandQueue
          /\ ~MapHas(commandQueue, commandIdCounter')
          /\ commandQueue'[Len(commandQueue')].id = commandIdCounter'
          /\ commandQueue'[Len(commandQueue')].status = "pending"
     /\ \A i \in 1..Len(calls) : WaitTick(i) =>
          /\ commandIdCounter' = commandIdCounter
          /\ IF resp'.op = "settle"
               THEN /\ commandQueue' = MapDelete(commandQueue, calls[i].commandId)
                    /\ ~MapHas(commandQueue', calls[i].commandId)
               ELSE commandQueue' = commandQueue]_vars

\* a call has returned its payload while another call was still waiting
C11_Witness ==
  /\ Settled
  /\ resp.outcome.kind = "return"
  /\ Len(calls) = 1
  /\ Len(commandQueue) = 1
  /\ commandQueue[1].id # resp.commandId

\* C12: the calls in flight have ids of their own; a report changes no
\* record and no waiting call but those of the id it carries; and what a
\* call ends with comes from the reports of its own id only: it returns or
\* fails with a reported error only if a report of its id was received, and
\* when it got exactly one report it ends with what that report carried or
\* with the timeout error.
DistinctIds ==
  /\ \A i \in 1..Len(calls) : \A j \in 1..Len(calls) :
       i # j => calls[i].commandId # calls[j].commandId
  /\ \A i \in 1..Len(commandQueue) : \A j \in 1..Len(commandQueue) :
       i # j => commandQueue[i].id # commandQueue[j].id

OwnOutcome(r) ==
  /\ r.got.reports = "none" => r.outcome = Thrown("Command timeout")
  /\ r.got.reports = "one" =>
       r.outcome \in {Thrown("Command timeout"),
                      IF r.got.sole.success
                        THEN Returned(r.got.sole.result)
                        ELSE Thrown(ErrorMessage([error |-> r.got.sole.error]))}

C12_Isolated ==
  [][/\ DistinctIds'
     /\ \A body \in ReportBodies : CommandResult(body) =>
          /\ Len(commandQueue') = Len(commandQueue)
          /\ \A j \in 1..Len(commandQueue) :
               commandQueue[j].id # body.commandId => commandQueue'[j] = commandQueue[j]
          /\ Len(calls') = Len(calls)
          /\ \A i \in 1..Len(calls) :
               calls[i].commandId # body.commandId => calls'[i] = calls[i]
     /\ resp'.op = "settle" => OwnOutcome(resp')]_vars

\* of two waiting calls the second got a report, the first did not
C12_Witness ==
  /\ resp.op = "report"
  /\ Len(calls) = 2
  /\ Len(commandQueue) = 2
  /\ calls[1].got.reports = "none"
  /\ calls[2].got.reports = "one"
  /\ commandQueue[1].status = "pending"
  /\ commandQueue[2].status = "completed"

\* C13: a poll changes nothing: the Map (the ids, and the status, result and
\* timestamp of every record), the id counter, the telemetry buffers and
\* the waiting calls are after the poll what they were before it, so the
\* commands the poll has handed out are still pending.
C13_PollPureRead ==
  [][PollCommands =>
       /\ commandQueue' = commandQueue
       /\ commandIdCounter' = commandIdCounter
       /\ devToolsData' = devToolsData
       /\ calls' = calls
       /\ PendingFrom(commandQueue', 1) = resp'.body.commands]_vars

\* a poll has handed out the commands of two waiting calls
C13_Witness ==
  /\ resp.op = "poll"
  /\ Len(resp.body.commands) = 2
  /\ Len(calls) = 2
  /\ \A j \in 1..Len(commandQueue) : commandQueue[j].status = "pending"

\* C14: nothing marks a command as handed out: a poll of the extension gets
\* every record that is pending, however often it was handed out before,
\* and the extension starts one more executeCommand run for every command of
\* the response, so a command polled twice before its result is posted is
\* being executed twice.
C14_AtLeastOnce ==
  [][PollMcpCommands =>
       /\ \A j \in 1..Len(commandQueue) :
            commandQueue[j].status = "pending" =>
              \E k \in 1..Len(resp'.body.commands) :
                resp'.body.commands[k].id = commandQueue[j].id
       /\ Len(executions') = Len(executions) + Len(resp'.body.commands)
       /\ \A k \in 1..Len(resp'.body.commands) :
            executions'[Len(executions) + k] = resp'.body.commands[k]]_vars

\* two polls have handed out the same command and both runs are under way
C14_Witness ==
  /\ resp.op = "poll"
  /\ Len(executions) = 2
  /\ executions[1].id = executions[2].id
  /\ \E j \in 1..Len(commandQueue) :
       commandQueue[j].id = executions[1].id /\ commandQueue[j].status = "pending"

\* C15: a waiting call is never set to wake up more than one sleep of 100 ms
\* ahead, and the first pass of its loop that finds its record completed or
\* error ends the call: it does not sleep again until the timeout.
C15_EndsAtNextTick ==
  [][/\ \A i \in 1..Len(calls') : calls'[i].wakeAt <= now' + POLL_SLEEP
     /\ \A i \in 1..Len(calls) :
          (/\ WaitTick(i)
           /\ MapHas(commandQueue, calls[i].commandId)
           /\ MapGet(commandQueue, calls[i].commandId).status # "pending")
            => /\ resp'.op = "settle"
               /\ resp'.commandId = calls[i].commandId
               /\ Len(calls') = Len(calls) - 1
               /\ ~MapHas(commandQueue', calls[i].commandId)]_vars

\* a call has failed with the reported error at the tick after the report,
\* long before its timeout, a younger call still waiting
C15_Witness ==
  /\ Settled
  /\ resp.outcome = Thrown("No tab")
  /\ ~resp.late
  /\ now < timeout
  /\ Len(calls) = 1
  /\ calls[1].got.reports = "none"

\* C16: a call that has got no report does not wait beyond the timeout its
\* caller supplied: the last pass of the loop that sent it back to sleep ran
\* before that timeout had elapsed since the call was made.
C16_CallerTimeoutIsDeadline ==
  \A i \in 1..Len(calls) :
    MapHas(commandQueue, calls[i].commandId) =>
      (calls[i].wakeAt - POLL_SLEEP) - calls[i].startTime
         < MapGet(commandQueue, calls[i].commandId).params.timeout

\* C17: a query that is given a limit answers with the last
\* min(limit, n) of the n records of its buffer that pass its filters (the
\* tab id, if one is given, and the URL substring without regard to case or
\* the level, if one is given), in the order they arrived, and leaves the
\* buffers as they were.
Wanted(buf, args) ==
  SelectSeq(buf, LAMBDA r :
    /\ args.tab_id # NoTab => r.tabId = args.tab_id
    /\ "url_filter" \in DOMAIN args =>
         Includes(ToLowerCase(r.url), ToLowerCase(args.url_filter))
    /\ "level_filter" \in DOMAIN args => r.level = args.level_filter)

C17_QueryLastOfFiltered ==
  [][/\ \A args \in NetworkArgs :
          (GetNetworkRequests(args) /\ "limit" \in DOMAIN args) =>
            /\ resp'.body.items = LastOf(Wanted(devToolsData.networkRequests, args), args.limit)
            /\ devToolsData' = devToolsData
     /\ \A args \in ConsoleArgs :
          (GetConsoleLogs(args) /\ "limit" \in DOMAIN args) =>
            /\ resp'.body.items = LastOf(Wanted(devToolsData.consoleLogs, args), args.limit)
            /\ devToolsData' = devToolsData
     /\ \A args \in PerformanceArgs :
          (GetPerformanceMetrics(args) /\ "limit" \in DOMAIN args) =>
            /\ resp'.body.items = LastOf(Wanted(devToolsData.performanceMetrics, args), args.limit)
            /\ devToolsData' = devToolsData]_vars

\* C18: every call ends, whatever the extension does, and it ends by
\* returning a payload or by throwing an Error (the reported error or
\* 'Command timeout'), never in another way.
InFlight(id) == \E i \in 1..Len(calls) : calls[i].commandId = id

C18_Terminates ==
  /\ [](Settled => resp.outcome.kind \in {"return", "throw"})
  /\ \A id \in 1..MaxCommands : InFlight(id) ~> ~InFlight(id)

\* a call that nobody polled or reported has ended while another call,
\* reported several times, was still waiting
C18_Witness ==
  /\ Settled
  /\ resp.got.reports = "none"
  /\ Len(calls) = 1
  /\ calls[1].got.reports = "many"

\* C19: while calls are waiting, every other handler can run: a poll, a
\* report for any id, a telemetry push, a new call, and the sweep when it
\* is due; and no handler ever finds a record half written: a record is
\* pending with no result, completed with the reported payload, or error
\* with the reported error.
WholeRecord(c) ==
  \/ c.status = "pending" /\ c.result = Null
  \/ c.status = "completed" /\ \E p \in Payloads : c.result = [payload |-> p]
  \/ c.status = "error" /\ \E e \in Errors : c.result = [error |-> e]

C19_NeverBlocked ==
  /\ \A j \in 1..Len(commandQueue) : WholeRecord(commandQueue[j])
  /\ calls # <<>> =>
       /\ ENABLED PollCommands
       /\ \A body \in ReportBodies : ENABLED CommandResult(body)
       /\ \A type \in PushTypes, tab \in Tabs : ENABLED DevtoolsData(type, tab)
       /\ commandIdCounter < MaxCommands =>
            \A a \in Actions, p \in Params : ENABLED SendCommandToExtension(a, p)
       /\ now >= nextSweep => ENABLED CleanupSweep

\* a sweep has run and a poll has been answered while two calls were waiting
C19_Witness ==
  /\ resp.op = "poll"
  /\ Len(calls) = 2
  /\ nextSweep > CLEANUP_PERIOD
  /\ \E j \in 1..Len(commandQueue) : commandQueue[j].status = "error"

\* ---- C20 ----
\* C20: an uncaught exception, like SIGINT, SIGTERM and SIGHUP, runs cleanup:
\* the step closes the HTTP server, clears the sweep's interval and sets the
\* exit timer 100 ms ahead, and starts nothing anew. From then on the server
\* never listens again, the interval is never set again, no sweep runs, an
\* exit timer stays set until the process exits, the exit is taken once a
\* timer is due and not before, with code 0, and nothing happens in a
\* process that has exited.
CleanupStarted == ~httpServerListening

C20_OrderlyShutdown ==
  [][/\ (resp'.op = "cleanup" /\ resp'.cause \in Causes) =>
          /\ ~httpServerListening'
          /\ ~cleanupIntervalActive'
          /\ (now + EXIT_DELAY) \in exitTimers'
          /\ UNCHANGED <<commandQueue, commandIdCounter, calls, nextSweep, devToolsData>>
     /\ CleanupStarted =>
          /\ CleanupStarted'
          /\ ~cleanupIntervalActive /\ ~cleanupIntervalActive'
          /\ ~SweepStep
          /\ exitTimers # {} /\ exitTimers \subseteq exitTimers'
          /\ (~exited /\ \E t \in exitTimers : now >= t) => ENABLED Exit
     /\ (exited' /\ ~exited) =>
          /\ CleanupStarted
          /\ \E t \in exitTimers : now >= t
          /\ resp' = [op |-> "exit", code |-> 0]
     /\ exited => UNCHANGED vars
     /\ ~CleanupStarted => (cleanupIntervalActive /\ exitTimers = {} /\ ~exited)
    ]_vars

\* an uncaught exception has run cleanup while a call was waiting and a
\* sweep was due: the server is closed, the interval cleared, the exit timer
\* set, and the sweep that was due can no longer run
C20_Witness ==
  /\ resp = [op |-> "cleanup", cause |-> "uncaughtException"]
  /\ CleanupStarted
  /\ exitTimers = {now + EXIT_DELAY}
  /\ ~exited
  /\ calls # <<>>
  /\ commandQueue # <<>>
  /\ now >= nextSweep

\* ---- C21 ----
\* C21: when the record of a waiting call is no longer in the Map (the sweep
\* has removed it), the next pass of the call's loop ends that call with
\* Error('Command timeout'), and with nothing else: the Map, the counter and
\* every other waiting call are as they were. No call ever ends with the
\* TypeError of reading the status of a missing record.
RecordGone(i) == ~MapHas(commandQueue, calls[i].commandId)

C21_GoneRecordTimesOut ==
  [][/\ \A i \in 1..Len(calls) :
          (WaitTick(i) /\ RecordGone(i))
            => /\ resp' = Settlement(calls[i], Thrown("Command timeout"), now)
               /\ calls' = RemoveAt(calls, i)
               /\ commandQueue' = commandQueue
               /\ commandIdCounter' = commandIdCounter
               /\ devToolsData' = devToolsData
     /\ resp'.op = "settle" => resp'.outcome.kind \in {"return", "throw"}
    ]_vars

\* the sweep has removed the record of a call that is still waiting, while
\* a younger call waits with its record in the Map; the older call's timer
\* is due
C21_Witness ==
  /\ Len(calls) = 2
  /\ RecordGone(1)
  /\ ~RecordGone(2)
  /\ now - calls[1].startTime > maxAge
  /\ ENABLED WaitTick(1)

\* ---- C22 ----
\* C22 as stated: the record of every waiting call is in the Map.
C22_PresentWhileWaiting ==
  \A i \in 1..Len(calls) : MapHas(commandQueue, calls[i].commandId)

\* C22, amended: the record of a waiting call whose timer is not overdue is
\* in the Map, and no sweep step removes it; the record of a waiting call is
\* missing only when the call was made more than 60 s ago, which makes its
\* timer overdue by more than 60 s - 30 s - 100 ms.
OnSchedule(i) == now <= calls[i].wakeAt

C22_PresentOnSchedule ==
  [][/\ \A i \in 1..Len(calls) :
          /\ OnSchedule(i) => MapHas(commandQueue, calls[i].commandId)
          /\ RecordGone(i) =>
               /\ now - calls[i].startTime > maxAge
               /\ now - calls[i].wakeAt > maxAge - timeout - POLL_SLEEP
          /\ (SweepStep /\ OnSchedule(i)) =>
               /\ MapHas(commandQueue', calls[i].commandId)
               /\ MapGet(commandQueue', calls[i].commandId)
                    = MapGet(commandQueue, calls[i].commandId)
    ]_vars

\* a sweep has just run while a call made 100 ms before waits on schedule,
\* and the call's record is still there, pending
C22_Witness ==
  /\ nextSweep = now + CLEANUP_PERIOD
  /\ Len(calls) = 1
  /\ OnSchedule(1)
  /\ now - calls[1].startTime = POLL_SLEEP
  /\ MapHas(commandQueue, calls[1].commandId)
  /\ MapGet(commandQueue, calls[1].commandId).status = "pending"

\* ---- C23 ----
\* C23: every record in the Map has the id of a call that has not yet
\* returned or thrown, one record per call at most: the Map is never larger
\* than the number of waiting calls and is empty when no call waits. Records
\* come into the Map only in the step that makes a call.
WaitingIds == {calls[i].commandId : i \in 1..Len(calls)}

C23_NoOrphans ==
  [][/\ \A j \in 1..Len(commandQueue) : commandQueue[j].id \in WaitingIds
     /\ \A j, k \in 1..Len(commandQueue) :
          commandQueue[j].id = commandQueue[k].id => j = k
     /\ Len(commandQueue) <= Len(calls)
     /\ (calls = <<>> => commandQueue = <<>>)
     /\ \A j \in 1..Len(commandQueue') :
          ~MapHas(commandQueue, commandQueue'[j].id)
            => /\ commandQueue'[j].id = commandIdCounter'
               /\ commandIdCounter' = commandIdCounter + 1
    ]_vars

\* the second of two calls has just failed with its reported error and its
\* record is gone, while the first still waits and owns the one record left,
\* which is completed and not yet collected
C23_Witness ==
  /\ Settled
  /\ resp.commandId = 2
  /\ resp.outcome.kind = "throw"
  /\ resp.outcome.message # "Command timeout"
  /\ Len(calls) = 1
  /\ Len(commandQueue) = 1
  /\ commandQueue[1].id = calls[1].commandId
  /\ commandQueue[1].status = "completed"

\* ---- C24 ----
\* C24: a push of type network, console or performance changes the buffer
\* of that type and lastUpdate and nothing else: the two other buffers, the
\* Map, the counter and the waiting calls are as before. A push of any other
\* type leaves the three buffers as they were. Every push is answered
\* 200 {success: true} and sets lastUpdate to the time of the push.
BufferOf(type) ==
  IF type = "network" THEN "networkRequests"
  ELSE IF type = "console" THEN "consoleLogs"
  ELSE IF type = "performance" THEN "performanceMetrics"
  ELSE "none"

BufferNames == {"networkRequests", "consoleLogs", "performanceMetrics"}

C24_PushFrame ==
  [][\A type \in PeerPushTypes, tab \in Tabs :
       DevtoolsData(type, tab) =>
         /\ \A b \in BufferNames \ {BufferOf(type)} : devToolsData'[b] = devToolsData[b]
         /\ BufferOf(type) \in BufferNames =>
              LET buf == devToolsData'[BufferOf(type)]
              IN /\ buf # <<>>
                 /\ buf[Len(buf)] = [tabId |-> tab, seq |-> pushed + 1]
                 /\ \A k \in 1..(Len(buf) - 1) :
                      buf[k] = devToolsData[BufferOf(type)]
                                 [Len(devToolsData[BufferOf(type)]) - (Len(buf) - 1) + k]
         /\ devToolsData'.lastUpdate = ToISOString(now)
         /\ commandQueue' = commandQueue
         /\ commandIdCounter' = commandIdCounter
         /\ calls' = calls
         /\ resp'.status = 200
         /\ resp'.body = [success |-> TRUE]
    ]_vars

\* a push of a type the handler does not know has been acknowledged at a
\* moment when a command is in the Map, and the buffers hold what they held
C24_Witness ==
  /\ resp.op = "push"
  /\ resp.body.success
  /\ pushed = 1
  /\ Buffers(devToolsData) = Buffers(SomeData)
  /\ commandQueue # <<>>

\* ---- C25 ----
\* C25: clear_devtools_data with a tab id leaves in each of the three
\* buffers the records of the other tabs, all of them, each once and in the
\* order they had, and no record of that tab; without a tab id it leaves the
\* three buffers empty. Either way lastUpdate is null afterwards and the Map,
\* the counter and the waiting calls are unchanged.
Elems(seq) == {seq[k] : k \in 1..Len(seq)}

\* sub holds some of the elements of seq, in the order they have in seq
InOrderOf(sub, seq) ==
  \A j, k \in 1..Len(sub) :
    j < k => \E m, n \in 1..Len(seq) : m < n /\ seq[m] = sub[j] /\ seq[n] = sub[k]

C25_ClearFrame ==
  [][\A tabId \in Tabs \cup {NoTab} :
       ClearDevtoolsData(tabId) =>
         /\ \A b \in BufferNames :
              IF tabId = NoTab
                THEN devToolsData'[b] = <<>>
                ELSE /\ Elems(devToolsData'[b])
                          = {r \in Elems(devToolsData[b]) : r.tabId # tabId}
                     /\ Len(devToolsData'[b]) = Cardinality(Elems(devToolsData'[b]))
                     /\ InOrderOf(devToolsData'[b], devToolsData[b])
         /\ devToolsData'.lastUpdate = Null
         /\ commandQueue' = commandQueue
         /\ commandIdCounter' = commandIdCounter
         /\ calls' = calls
    ]_vars

\* tab 2 has been cleared after two pushes for tab 1: the records of tab 1
\* are left in the network buffer, oldest first, the two other buffers have
\* records left too, and the command in the Map is still there
C25_Witness ==
  /\ devToolsData.lastUpdate = Null
  /\ pushed = 2
  /\ Len(devToolsData.networkRequests) = 2
  /\ devToolsData.networkRequests[1].seq < devToolsData.networkRequests[2].seq
  /\ \A b \in BufferNames : \A k \in 1..Len(devToolsData[b]) : devToolsData[b][k].tabId = 1
  /\ devToolsData.consoleLogs # <<>>
  /\ commandQueue # <<>>

\* ---- C26 ----
\* C26: the relay serves a poll or a push of the extension only in a step
\* that starts with mcpServerConnected true. The flag turns true only in a
\* /status check that was answered 200, and turns false only in a check or
\* a push whose fetch failed. A record produced while the flag is false
\* changes nothing at the relay, and every record that enters a buffer is
\* the one produced in that very step: none is sent later.
C26_OnlyWhileConnected ==
  [][/\ ((resp'.op \in {"poll", "push"} /\ resp'.status = 200) \/ resp'.op = "drop")
          => (mcpServerConnected <=> resp'.op # "drop")
     /\ (~mcpServerConnected /\ mcpServerConnected')
          => (resp'.op = "status" /\ resp'.status = 200)
     /\ (mcpServerConnected /\ ~mcpServerConnected')
          => (resp'.op \in {"status", "push"} /\ resp'.status = 0)
     /\ resp'.op = "drop"
          => /\ devToolsData' = devToolsData
             /\ pushed' = resp'.seq
             /\ UNCHANGED <<commandQueue, executions, mcpServerConnected>>
     /\ \A b \in BufferNames :
          \A r \in Elems(devToolsData'[b]) \ Elems(devToolsData[b]) :
            r.seq = pushed + 1 /\ pushed' = pushed + 1 /\ mcpServerConnected
    ]_vars

\* a record was dropped while the flag was false, the check then turned the
\* flag true, and the next record is in its buffer without the dropped one
C26_Witness ==
  /\ resp.op = "push"
  /\ mcpServerConnected
  /\ pushed = 2
  /\ \E b \in BufferNames :
       /\ devToolsData[b] # <<>>
       /\ devToolsData[b][Len(devToolsData[b])].seq = 2
       /\ \A c \in BufferNames : \A k \in 1..Len(devToolsData[c]) : devToolsData[c][k].seq # 1

\* ---- C27 ----
\* C27: every run of executeCommand is for a command a poll response held,
\* with an id the relay has handed out. A result arrives at the relay only
\* in a step that ends exactly one run, and it is written under the id of
\* that run's command and under no other: the record of that id, when it is
\* there, becomes completed with the answer of the handler, or error with the
\* handler's error message when the answer was {success: false, error}. No
\* run ends without its result being posted, and runs start only in a poll.
RunEnds(k) == executions' = RemoveAt(executions, k)

C28_SettlesWithinTimeout ==
  imageWait.state = "pending" =>
    pageNow - imageWait.startTime <= imageWait.timeout


\* ---- C29 ----
\* C29: when every waitForAjax call that was started has settled,
\* XMLHttpRequest.prototype.open, XMLHttpRequest.prototype.send and
\* window.fetch are the functions that were installed before the first call.
C29_RestoresPatched ==
  (/\ ajaxWait.calls # <<>>
   /\ \A i \in 1..Len(ajaxWait.calls) : ajaxWait.calls[i].state # "pending")
    => ajaxWait.patched = Native

\* ---- C30 ----
\* C30: the action is invoked once per attempt and never more than
\* maxAttempts times; the call returns at the first attempt that succeeds,
\* with that attempt's number and result; it has slept once after every
\* failed attempt but the last; and it throws, for every maxAttempts, only
\* after maxAttempts failures, the error 'Action failed after maxAttempts
\* attempts' with the message of the last failure.
C30_RetryContract ==
  retry.state # "idle" =>
    /\ retry.invoked <= retry.maxAttempts
    /\ retry.state = "acting" => (retry.invoked = retry.attempt /\ retry.slept = retry.attempt - 1)
    /\ retry.state = "sleeping" => (retry.slept = retry.invoked /\ retry.invoked < retry.maxAttempts)
    /\ retry.state = "returned" =>
         /\ retry.outcome = [success |-> TRUE, attempt |-> retry.invoked, result |-> "done"]
         /\ retry.slept = retry.invoked - 1
    /\ retry.state = "thrown" =>
         /\ retry.invoked = retry.maxAttempts
         /\ retry.outcome.kind = "Action failed"
         /\ retry.outcome.attempts = retry.maxAttempts
         /\ retry.outcome.lastError = retry.lastError
         /\ retry.slept = (IF retry.maxAttempts = 0 THEN 0 ELSE retry.maxAttempts - 1)
====
